---- MODULE Spec2Model ----
(***************************************************************************)
(* Replay engine of src/trace_game.py: main() iterates over the episodes   *)
(* of a dataset; trace_game() replays one episode step by step against    *)
(* the game state (hands, discard pile, played pile, deck draw pointer).   *)
(* Positions (hand index, deck pointer, player index) are 0-based as in    *)
(* the source; TLA+ sequences are 1-based, hence the "+ 1" on accesses.    *)
(***************************************************************************)
EXTENDS Integers, Sequences, FiniteSets, TLC

\* ---------------------------------------------------------------- bounds
NumGames   == 2    \* episodes in the dataset file
MaxActions == 2    \* largest declared num_actions of an episode
NumColors  == 2    \* entries of COLOR_MAP
NumRanks   == 3    \* card ranks 0..NumRanks-1 occurring in the decks

\* ------------------------------------------------------ program constants
HandSize  == 5     \* cards dealt per player
DrawLimit == 50    \* "all 50 cards not yet used"
Sentinel  == 30    \* code of a player who does not act in the step
MaxCode   == 30    \* largest accepted action value

\* ------------------------------------------------------------ input sets
\* shapes of the dataset file: <<num_players, deck length>>
Shapes      == {<<2, 10>>, <<2, 11>>, <<2, 50>>, <<10, 11>>, <<10, 50>>, <<10, 51>>}
\* codes occurring in the action tensor, and the seats that carry them
Codes       == {-1, 0, 3, 4, 5, 8, 9, 10, 29, 30, 31}
SecondCodes == {Sentinel, 0}
ActingSeats == {0, 1}
ColorNames   == <<"Red", "Yellow", "Green", "White", "Blue", "Orange", "Pink">>

VARIABLES
  num_players,    \* tensor "num_players" of the file (shared by all episodes)
  game,           \* main(): loop variable i, the episode being processed
  pc,             \* main(): "load" | "running" | "exited" | "crashed"
  outcome,        \* per episode: NotStarted | Running | Completed | Failed | Crashed
  game_deck,      \* the episode's deck: sequence of <<color, rank>>
  num_actions,    \* the episode's declared action count
  score,          \* the episode's recorded score
  hands,          \* player -> sequence of rendered cards
  discard_pile,   \* sequence of rendered cards
  played_pile,    \* color name -> highest rank played
  deck_draw_ptr,  \* position of the next deck card to draw
  action_num,     \* trace_game(): loop variable, the next step to process
  action_vec,     \* trace_game(): the step vector pulled last
  cards_played,   \* number of cards popped from hands by handle_play
  log             \* lines written to the episode's log file

vars == <<num_players, game, pc, outcome, game_deck, num_actions, score, hands,
          discard_pile, played_pile, deck_draw_ptr, action_num, action_vec,
          cards_played, log>>

gameState == <<hands, discard_pile, played_pile, deck_draw_ptr, cards_played>>
episodeInputs == <<num_players, game_deck, num_actions, score>>

\* ---------------------------------------------------------------- helpers
Min(a, b) == IF a < b THEN a ELSE b

Players == 0 .. (num_players - 1)

\* COLOR_MAP of the logging constants: color index -> color name
color_map == [c \in 0 .. (NumColors - 1) |-> ColorNames[c + 1]]

ColorSet == {color_map[c] : c \in DOMAIN color_map}

\* card_str: (color, rank) -> "<ColorName> <rank + 1>", kept as the pair of
\* its two space-separated fields
card_str(card_tuple) == <<color_map[card_tuple[1]], card_tuple[2] + 1>>

\* card.split() and int(rank_str) of handle_play
CardColor(card) == card[1]
CardRank(card) == card[2]

\* the dataset file: row g of the tensors "decks" (len cards) and "scores"
DeckOf(len, g) ==
  [p \in 1 .. len |-> <<(p - 1 + g) % NumColors,
                        (((p - 1) \div NumColors) + g) % NumRanks>>]

ScoreOf(g) == 3 + 11 * g

\* Python slice seq[a:b] (bounds clamp to the length)
Slice(seq, a, b) ==
  LET lo == Min(a, Len(seq))
      hi == Min(b, Len(seq))
  IN  [k \in 1 .. (hi - lo) |-> seq[lo + k]]

\* list.pop(idx): the 0-based position idx names (a negative idx counts
\* from the end); a position outside 0 .. len-1 is an IndexError
PopPos(hand, idx) == IF idx < 0 THEN Len(hand) + idx ELSE idx

\* list.pop(idx) for 0 <= idx < len: the remaining list
Pop(hand, idx) ==
  [k \in 1 .. (Len(hand) - 1) |-> IF k <= idx THEN hand[k] ELSE hand[k + 1]]

\* a line of the log file: what is printed (tag) and the value in it
Line(tag, n) == <<tag, n>>

\* ------------------------------------------------------ game state (pure)
\* initialize_game_state: the hands dealt from the deck
InitialHands(deck, n) ==
  [i \in 0 .. (n - 1) |->
     LET block == Slice(deck, i * HandSize, (i + 1) * HandSize)
     IN  [k \in 1 .. Len(block) |-> card_str(block[k])]]

InitialPlayedPile == [color \in ColorSet |-> 0]

InitialDrawPtr(n) == n * HandSize

\* variant: the bounds check is off by one
IndexTooLarge_OffByOne(idx, hand) == idx > Len(hand)

\* handle_discard / handle_play: "if idx >= len(hands[acting_player_idx])"
IndexTooLarge(idx, hand) == idx >= Len(hand)

\* handle_discard / handle_play: "more_cards = deck_draw_ptr < 50"
more_cards(ptr) == ptr < DrawLimit

\* variant: an advancing play raises its stack by one
UpdatePlayedPile_Increment(pile, card) ==
  IF CardRank(card) > pile[CardColor(card)]
    THEN [pile EXCEPT ![CardColor(card)] = pile[CardColor(card)] + 1]
    ELSE pile

\* variant: the played card always overwrites its stack
UpdatePlayedPile_Overwrite(pile, card) ==
  [pile EXCEPT ![CardColor(card)] = CardRank(card)]

\* handle_play: "if rank > played_pile[color]: played_pile[color] = rank"
UpdatePlayedPile(pile, card) ==
  IF CardRank(card) > pile[CardColor(card)]
    THEN [pile EXCEPT ![CardColor(card)] = CardRank(card)]
    ELSE pile

\* --------------------------------------------------------- action decoder
\* "(action_vec != 30).nonzero()": the positions holding a non-sentinel code
non_30(vec) == {p \in DOMAIN vec : vec[p] # Sentinel}

\* "int(non_30.item())": defined for exactly one position
ActingPlayer(vec) == CHOOSE p \in non_30(vec) : TRUE

\* variant: the upper limit of the range check is off by one
InvalidActionValue_OffByOne(v) == v < 0 \/ v > MaxCode + 1

\* "if action_value < 0 or action_value > 30"
InvalidActionValue(v) == v < 0 \/ v > MaxCode

IsDiscard(v) == 0 <= v /\ v <= 4
IsPlay(v)    == 5 <= v /\ v <= 9
IsHint(v)    == 10 <= v /\ v <= 29

DiscardIndex(v) == v
\* variant: the play offset is off by one
PlayIndex_OffByOne(v) == v - 4
\* variant: the play offset is too large, the first play code gives -1
PlayIndex_TooLow(v) == v - 6
PlayIndex(v)    == v - 5

\* the step vectors of the action tensor: one code per player
StepVectors ==
  LET actors == ActingSeats \cap Players
  IN  {[p \in Players |-> IF p = i THEN v ELSE IF p = j THEN w ELSE Sentinel] :
         i \in actors, v \in Codes, j \in actors, w \in SecondCodes}

NoVector == <<>>

\* ------------------------------------------------- ends of a loop iteration
\* the iteration completes: print_game_state, then the next action_num
Continue(lines) ==
  /\ log' = log \o lines \o <<Line("snapshot", action_num + 1)>>
  /\ action_num' = action_num + 1
  /\ UNCHANGED <<pc, game, outcome>>

\* variant: the error is caught inside the loop, which goes on
RaiseInvalidGame_Continue(lines) ==
  /\ log' = log \o lines \o <<Line("error", game)>>
  /\ outcome' = [outcome EXCEPT ![game] = "Failed"]
  /\ action_num' = action_num + 1
  /\ UNCHANGED <<pc, game>>

\* InvalidGameError: caught by main(), which writes the error line to the
\* episode's log and goes on with the next episode
RaiseInvalidGame(lines) ==
  /\ log' = log \o lines \o <<Line("error", game)>>
  /\ outcome' = [outcome EXCEPT ![game] = "Failed"]
  /\ pc' = "load"
  /\ game' = game + 1
  /\ UNCHANGED action_num

\* any other exception (IndexError, RuntimeError) is not caught by main():
\* the program terminates
RaiseUncaught(lines) ==
  /\ log' = log \o lines
  /\ outcome' = [outcome EXCEPT ![game] = "Crashed"]
  /\ pc' = "crashed"
  /\ UNCHANGED <<game, action_num>>

\* variant: the drawn card goes to the hand of the next player
DrawAfter_NextPlayer(actor, rest, lines) ==
  LET next == (actor + 1) % num_players
  IN  IF more_cards(deck_draw_ptr)
        THEN IF deck_draw_ptr < Len(game_deck)
               THEN /\ hands' = [hands EXCEPT
                                   ![actor] = rest,
                                   ![next] = Append(IF next = actor THEN rest ELSE hands[next],
                                                    card_str(game_deck[deck_draw_ptr + 1]))]
                    /\ deck_draw_ptr' = deck_draw_ptr + 1
                    /\ Continue(lines \o <<Line("drew", card_str(game_deck[deck_draw_ptr + 1]))>>)
               ELSE /\ hands' = [hands EXCEPT ![actor] = rest]
                    /\ UNCHANGED deck_draw_ptr
                    /\ RaiseUncaught(lines)
        ELSE /\ hands' = [hands EXCEPT ![actor] = rest]
             /\ UNCHANGED deck_draw_ptr
             /\ Continue(lines)

\* lines 166-174 / 217-225: draw for actor after the card left the hand `rest`
DrawAfter(actor, rest, lines) ==
  IF more_cards(deck_draw_ptr)
    THEN IF deck_draw_ptr < Len(game_deck)
           THEN /\ hands' = [hands EXCEPT ![actor] =
                               Append(rest, card_str(game_deck[deck_draw_ptr + 1]))]
                /\ deck_draw_ptr' = deck_draw_ptr + 1
                /\ Continue(lines \o <<Line("drew", card_str(game_deck[deck_draw_ptr + 1]))>>)
           ELSE \* game_deck[deck_draw_ptr]: IndexError
                /\ hands' = [hands EXCEPT ![actor] = rest]
                /\ UNCHANGED deck_draw_ptr
                /\ RaiseUncaught(lines)
    ELSE /\ hands' = [hands EXCEPT ![actor] = rest]
         /\ UNCHANGED deck_draw_ptr
         /\ Continue(lines)

handle_discard(action_value, actor, lines) ==
  LET idx  == DiscardIndex(action_value)
      hand == hands[actor]
      pos  == PopPos(hand, idx)
  IN  IF IndexTooLarge(idx, hand)
        THEN RaiseInvalidGame(lines) /\ UNCHANGED gameState
      ELSE IF pos < 0 \/ pos >= Len(hand)
        THEN RaiseUncaught(lines) /\ UNCHANGED gameState  \* list.pop: IndexError
      ELSE /\ discard_pile' = Append(discard_pile, hand[pos + 1])
           /\ UNCHANGED <<played_pile, cards_played>>
           /\ DrawAfter(actor, Pop(hand, pos), lines \o <<Line("discarded", hand[pos + 1])>>)

\* variant: the played card is also put on the discard pile
handle_play_Discards(action_value, actor, lines) ==
  LET idx  == PlayIndex(action_value)
      hand == hands[actor]
      pos  == PopPos(hand, idx)
  IN  IF IndexTooLarge(idx, hand)
        THEN RaiseInvalidGame(lines) /\ UNCHANGED gameState
      ELSE IF pos < 0 \/ pos >= Len(hand)
        THEN RaiseUncaught(lines) /\ UNCHANGED gameState
      ELSE /\ played_pile' = UpdatePlayedPile(played_pile, hand[pos + 1])
           /\ cards_played' = cards_played + 1
           /\ discard_pile' = Append(discard_pile, hand[pos + 1])
           /\ DrawAfter(actor, Pop(hand, pos), lines \o <<Line("played", hand[pos + 1])>>)

handle_play(action_value, actor, lines) ==
  LET idx  == PlayIndex(action_value)
      hand == hands[actor]
      pos  == PopPos(hand, idx)
  IN  IF IndexTooLarge(idx, hand)
        THEN RaiseInvalidGame(lines) /\ UNCHANGED gameState
      ELSE IF pos < 0 \/ pos >= Len(hand)
        THEN RaiseUncaught(lines) /\ UNCHANGED gameState  \* list.pop: IndexError
      ELSE /\ played_pile' = UpdatePlayedPile(played_pile, hand[pos + 1])
           /\ cards_played' = cards_played + 1
           /\ UNCHANGED discard_pile
           /\ DrawAfter(actor, Pop(hand, pos), lines \o <<Line("played", hand[pos + 1])>>)

\* ------------------------------------------------------------------ main()
Init ==
  /\ \E shape \in Shapes :
       /\ num_players = shape[1]
       /\ game_deck = DeckOf(shape[2], 0)
  /\ game = 0
  /\ pc = "load"
  /\ outcome = [g \in 0 .. (NumGames - 1) |-> "NotStarted"]
  /\ num_actions = 0
  /\ score = 0
  /\ hands = [p \in Players |-> <<>>]
  /\ discard_pile = <<>>
  /\ played_pile = InitialPlayedPile
  /\ deck_draw_ptr = 0
  /\ action_num = 0
  /\ action_vec = NoVector
  /\ cards_played = 0
  /\ log = <<>>

\* one pass of main()'s loop up to the first step of trace_game: open the
\* log, load_game_data, initialize_game_state, print the header
LoadGame ==
  /\ pc = "load"
  /\ game < NumGames
  /\ game_deck' = DeckOf(Len(game_deck), game)
  /\ num_actions' \in 0 .. MaxActions
  /\ score' = ScoreOf(game)
  /\ hands' = InitialHands(game_deck', num_players)
  /\ discard_pile' = <<>>
  /\ played_pile' = InitialPlayedPile
  /\ deck_draw_ptr' = InitialDrawPtr(num_players)
  /\ cards_played' = 0
  /\ action_num' = 0
  /\ action_vec' = NoVector
  /\ log' = <<Line("header", game + 1)>>
  /\ outcome' = [outcome EXCEPT ![game] = "Running"]
  /\ pc' = "running"
  /\ UNCHANGED <<num_players, game>>

InLoop == pc = "running" /\ action_num < num_actions

\* variant: the all-sentinel step falls through to print_game_state
StepSkip_Snapshot ==
  /\ InLoop
  /\ \E vec \in StepVectors :
       /\ non_30(vec) = {}
       /\ action_vec' = vec
  /\ Continue(<<>>)
  /\ UNCHANGED <<gameState, episodeInputs>>

\* "if len(non_30) == 0: continue"
StepSkip ==
  /\ InLoop
  /\ \E vec \in StepVectors :
       /\ non_30(vec) = {}
       /\ action_vec' = vec
  /\ action_num' = action_num + 1
  /\ UNCHANGED <<pc, game, outcome, log, gameState, episodeInputs>>

\* "non_30.item()" on more than one position: RuntimeError
StepAmbiguous ==
  /\ InLoop
  /\ \E vec \in StepVectors :
       /\ Cardinality(non_30(vec)) > 1
       /\ action_vec' = vec
  /\ RaiseUncaught(<<>>)
  /\ UNCHANGED <<gameState, episodeInputs>>

\* "raise InvalidGameError("Game data contains an invalid action value")"
StepInvalidValue ==
  /\ InLoop
  /\ \E vec \in StepVectors :
       /\ Cardinality(non_30(vec)) = 1
       /\ InvalidActionValue(vec[ActingPlayer(vec)])
       /\ action_vec' = vec
  /\ RaiseInvalidGame(<<>>)
  /\ UNCHANGED <<gameState, episodeInputs>>

StepDiscard ==
  /\ InLoop
  /\ \E vec \in StepVectors :
       /\ Cardinality(non_30(vec)) = 1
       /\ ~InvalidActionValue(vec[ActingPlayer(vec)])
       /\ IsDiscard(vec[ActingPlayer(vec)])
       /\ action_vec' = vec
       /\ handle_discard(vec[ActingPlayer(vec)], ActingPlayer(vec),
                         <<Line("step", action_num + 1)>>)
  /\ UNCHANGED episodeInputs

StepPlay ==
  /\ InLoop
  /\ \E vec \in StepVectors :
       /\ Cardinality(non_30(vec)) = 1
       /\ ~InvalidActionValue(vec[ActingPlayer(vec)])
       /\ ~IsDiscard(vec[ActingPlayer(vec)])
       /\ IsPlay(vec[ActingPlayer(vec)])
       /\ action_vec' = vec
       /\ handle_play(vec[ActingPlayer(vec)], ActingPlayer(vec),
                      <<Line("step", action_num + 1)>>)
  /\ UNCHANGED episodeInputs

\* variant: a hint draws a card for the acting player
StepHint_Draws ==
  /\ InLoop
  /\ \E vec \in StepVectors :
       /\ Cardinality(non_30(vec)) = 1
       /\ ~InvalidActionValue(vec[ActingPlayer(vec)])
       /\ ~IsDiscard(vec[ActingPlayer(vec)])
       /\ ~IsPlay(vec[ActingPlayer(vec)])
       /\ action_vec' = vec
       /\ DrawAfter(ActingPlayer(vec), hands[ActingPlayer(vec)],
                    <<Line("step", action_num + 1), Line("hint", 0)>>)
  /\ UNCHANGED <<discard_pile, played_pile, cards_played, episodeInputs>>

\* "elif 10 <= action_value <= 29": the hint line; a value that matches no
\* branch dispatches nothing; either way print_game_state follows
StepHint ==
  /\ InLoop
  /\ \E vec \in StepVectors :
       /\ Cardinality(non_30(vec)) = 1
       /\ ~InvalidActionValue(vec[ActingPlayer(vec)])
       /\ ~IsDiscard(vec[ActingPlayer(vec)])
       /\ ~IsPlay(vec[ActingPlayer(vec)])
       /\ action_vec' = vec
       /\ Continue(<<Line("step", action_num + 1)>> \o
                   (IF IsHint(vec[ActingPlayer(vec)])
                      THEN <<Line("hint", 0)>> ELSE <<>>))
  /\ UNCHANGED <<gameState, episodeInputs>>

\* variant: the final score line shows the sum of the played stacks
Finish_Recomputed ==
  /\ pc = "running"
  /\ action_num >= num_actions
  /\ LET RECURSIVE Sum(_)
         Sum(cs) == IF cs = {} THEN 0
                    ELSE LET c == CHOOSE x \in cs : TRUE
                         IN  played_pile[c] + Sum(cs \ {c})
     IN  log' = log \o <<Line("score", Sum(ColorSet)), Line("footer", 0)>>
  /\ outcome' = [outcome EXCEPT ![game] = "Completed"]
  /\ pc' = "load"
  /\ game' = game + 1
  /\ UNCHANGED <<action_num, action_vec, gameState, episodeInputs>>

\* the loop is over: final score and footer, then main() goes on
Finish ==
  /\ pc = "running"
  /\ action_num >= num_actions
  /\ log' = log \o <<Line("score", score), Line("footer", 0)>>
  /\ outcome' = [outcome EXCEPT ![game] = "Completed"]
  /\ pc' = "load"
  /\ game' = game + 1
  /\ UNCHANGED <<action_num, action_vec, gameState, episodeInputs>>

\* main() returns after the last episode
Exit ==
  /\ pc = "load"
  /\ game >= NumGames
  /\ pc' = "exited"
  /\ UNCHANGED <<game, outcome, log, action_num, action_vec, gameState, episodeInputs>>

Next ==
  \/ LoadGame
  \/ StepSkip
  \/ StepAmbiguous
  \/ StepInvalidValue
  \/ StepDiscard
  \/ StepPlay
  \/ StepHint
  \/ Finish
  \/ Exit

Spec == Init /\ [][Next]_vars

TypeOK ==
  /\ pc \in {"load", "running", "exited", "crashed"}
  /\ game \in 0 .. NumGames
  /\ deck_draw_ptr \in Nat
  /\ action_num \in 0 .. MaxActions

\* ================================================================= claims
\* the entries of a step vector that differ from the sentinel, and the
\* code and hand index of a vector with exactly one such entry
Differing(vec) == {p \in DOMAIN vec : vec[p] # 30}
TheActor(vec)  == CHOOSE p \in Differing(vec) : TRUE
TheCode(vec)   == vec[TheActor(vec)]
HandIndex(v)   == IF v <= 4 THEN v ELSE v - 5

\* a step of the replay loop that pulls a vector with exactly one actor
SingleActorStep == InLoop /\ Cardinality(Differing(action_vec')) = 1
\* ... whose code is a discard or play code
CardStep == SingleActorStep /\ TheCode(action_vec') \in 0 .. 9
\* an episode has been initialized
Replaying == outcome[0] # "NotStarted"
\* the step ended with InvalidGameError, recorded in the episode's log
FailedHere ==
  /\ outcome'[game] = "Failed"
  /\ Len(log') > 0
  /\ log'[Len(log')] = Line("error", game)
LastTag(l) == IF Len(l) = 0 THEN "none" ELSE l[Len(l)][1]
Tags(l) == [k \in 1 .. Len(l) |-> l[k][1]]
\* the number of cards in all hands
SumHands(h) ==
  LET RECURSIVE S(_)
      S(ps) == IF ps = {} THEN 0
               ELSE LET p == CHOOSE q \in ps : TRUE
                    IN  Len(h[p]) + S(ps \ {p})
  IN  S(DOMAIN h)

\* C1: conservation law - in every state of a replay, cards in hands +
\* discard pile + cards removed by plays + undrawn deck cards (deck length
\* minus draw cursor) equals the deck length.
C1_Conservation ==
  Replaying =>
    SumHands(hands) + Len(discard_pile) + cards_played
      + (Len(game_deck) - deck_draw_ptr) = Len(game_deck)

\* C2: every successful discard or play removes one card from the acting
\* hand and draws one card if and only if the draw cursor is below the
\* episode's deck length (hand size unchanged / one less).
C2_DrawIffBelowDeckLength ==
  [][(CardStep /\ pc' = "running") =>
       LET a == TheActor(action_vec')
       IN  IF deck_draw_ptr < Len(game_deck)
             THEN /\ Len(hands'[a]) = Len(hands[a])
                  /\ deck_draw_ptr' = deck_draw_ptr + 1
             ELSE /\ Len(hands'[a]) = Len(hands[a]) - 1
                  /\ deck_draw_ptr' = deck_draw_ptr]_vars

\* C3: a discard or play applied while the draw cursor is at or beyond the
\* episode's deck length draws nothing: the card leaves the hand, the cursor
\* is unchanged, the replay does not fail and the state is logged.
C3_NoDrawPastDeckEnd ==
  [][(/\ CardStep
      /\ HandIndex(TheCode(action_vec')) < Len(hands[TheActor(action_vec')])
      /\ deck_draw_ptr >= Len(game_deck)) =>
       LET a == TheActor(action_vec')
       IN  /\ Len(hands'[a]) = Len(hands[a]) - 1
           /\ deck_draw_ptr' = deck_draw_ptr
           /\ pc' = "running"
           /\ LastTag(log') = "snapshot"]_vars

\* C4: across the steps of a replay no color's played-stack height decreases.
C4_StacksNeverDecrease ==
  [][pc = "running" =>
       \A c \in ColorSet : played_pile'[c] >= played_pile[c]]_vars

\* a stack was raised by a play and a later play of the same color with a
\* rank not above it was made
C4_Witness ==
  /\ pc = "running"
  /\ \E i, j \in DOMAIN log :
       /\ i < j
       /\ log[i][1] = "played" /\ log[j][1] = "played"
       /\ CardColor(log[i][2]) = CardColor(log[j][2])
       /\ CardRank(log[j][2]) <= CardRank(log[i][2])
       /\ played_pile[CardColor(log[i][2])] = CardRank(log[i][2])

\* C5: a hint step (actor code 10..29) leaves hands, discard pile, played
\* stacks and draw cursor unchanged.
C5_HintNoMutation ==
  [][(SingleActorStep /\ TheCode(action_vec') \in 10 .. 29) =>
       /\ hands' = hands
       /\ discard_pile' = discard_pile
       /\ played_pile' = played_pile
       /\ deck_draw_ptr' = deck_draw_ptr]_vars

\* two hints in a row were applied while undrawn cards remained
C5_Witness ==
  /\ pc = "running"
  /\ deck_draw_ptr < Len(game_deck)
  /\ \E i \in DOMAIN log :
       /\ i + 3 \in DOMAIN log
       /\ log[i][1] = "hint" /\ log[i + 2][1] = "step" /\ log[i + 3][1] = "hint"

\* C6: a discard or play whose derived hand index is not an index of the
\* acting hand (index equal to the hand length included) fails with
\* InvalidGameError and removes no card.
C6_BadIndexFails ==
  [][(/\ CardStep
      /\ HandIndex(TheCode(action_vec')) >= Len(hands[TheActor(action_vec')])) =>
       /\ FailedHere
       /\ UNCHANGED gameState]_vars

\* an episode failed on a step whose index equals the length of the hand
C6_Witness ==
  /\ pc = "load" /\ game > 0
  /\ outcome[game - 1] = "Failed"
  /\ Cardinality(Differing(action_vec)) = 1
  /\ TheCode(action_vec) \in 0 .. 9
  /\ HandIndex(TheCode(action_vec)) = Len(hands[TheActor(action_vec)])
  /\ Len(hands[TheActor(action_vec)]) > 0

\* C7: an actor code below 0 or above 30 fails the replay at that step:
\* nothing is dispatched, the game state is not mutated and neither a step
\* line nor a snapshot is logged.
C7_InvalidCodeFails ==
  [][(/\ SingleActorStep
      /\ (TheCode(action_vec') < 0 \/ TheCode(action_vec') > 30)) =>
       /\ FailedHere
       /\ log' = Append(log, Line("error", game))
       /\ UNCHANGED gameState]_vars

\* an episode failed on the code 31 after a step that changed the state
C7_Witness ==
  /\ pc = "load" /\ game > 0
  /\ outcome[game - 1] = "Failed"
  /\ Cardinality(Differing(action_vec)) = 1
  /\ TheCode(action_vec) = 31
  /\ Len(discard_pile) = 1

\* C8: a step whose vector is all sentinel dispatches nothing, logs nothing,
\* leaves the game state unchanged and the replay goes on to the next step.
C8_SkipPassThrough ==
  [][(/\ InLoop
      /\ DOMAIN action_vec' = Players
      /\ Differing(action_vec') = {}) =>
       /\ log' = log
       /\ UNCHANGED gameState
       /\ pc' = "running"
       /\ action_num' = action_num + 1]_vars

\* an all-sentinel step was passed and the step after it was processed
C8_Witness ==
  /\ pc = "running"
  /\ action_num = 2
  /\ Tags(log) = <<"header", "step", "discarded", "drew", "snapshot">>
  /\ log[2] = Line("step", 2)

\* C9: a failure of any kind in one episode is recorded as that episode's
\* outcome and never aborts the batch.
C9_FailureNeverAbortsBatch == pc # "crashed"

\* C10: a step with more than one non-sentinel entry is surfaced as a failure
\* of that episode (caught at the episode boundary); no actor is picked.
C10_AmbiguousStepFails ==
  [][(InLoop /\ Cardinality(Differing(action_vec')) > 1) =>
       /\ FailedHere
       /\ UNCHANGED gameState]_vars

\* C11: initializing with a deck shorter than 5 x num_players fails; no
\* episode with such a deck ever has a game state (short or empty hands, a
\* draw cursor beyond the deck length).
C11_ShortDeckRejected ==
  Replaying =>
    /\ deck_draw_ptr <= Len(game_deck)
    /\ (pc = "running" /\ action_num = 0) =>
          \A p \in Players : Len(hands[p]) = 5

IsPrefix(a, b) == Len(a) <= Len(b) /\ SubSeq(b, 1, Len(a)) = a
Terminal == {"Completed", "Failed", "Crashed"}
CountTag(l, tag) == Cardinality({k \in DOMAIN l : l[k][1] = tag})

\* C12: a replay ends in exactly one terminal state; without a failing step
\* it processes the steps 0 .. num_actions-1 in increasing order, each once,
\* then reaches Completed and writes the final score line with the supplied
\* score; no step with index >= num_actions is processed.
C12_ReplayRunsDeclaredSteps ==
  [][/\ \A g \in DOMAIN outcome :
          outcome[g] \in Terminal => outcome'[g] = outcome[g]
     /\ (pc = "running" /\ pc' = "running") =>
          /\ action_num < num_actions
          /\ action_num' = action_num + 1
          /\ log' = log \/ log'[Len(log) + 1] = Line("step", action_num + 1)
     /\ (pc = "running" /\ action_num >= num_actions) =>
          outcome'[game] = "Completed"
     /\ (pc = "running" /\ outcome'[game] = "Completed") =>
          /\ action_num = num_actions
          /\ log' = log \o <<Line("score", ScoreOf(game)), Line("footer", 0)>>
          /\ UNCHANGED gameState
     /\ pc' = "running" => (action_num' <= num_actions' /\ ENABLED Next)]_vars

\* an episode of two declared steps completed after a play raised a stack
C12_Witness ==
  /\ pc = "load" /\ game = 1
  /\ outcome[0] = "Completed"
  /\ num_actions = 2 /\ action_num = 2
  /\ CountTag(log, "snapshot") = 2
  /\ CountTag(log, "played") = 1
  /\ log[Len(log) - 1] = Line("score", 3)

\* C13: once a replay has failed at a step, no later step of that episode is
\* decoded or dispatched and its game state is not mutated again (the next
\* thing to happen is the start of the next episode or the end of the
\* batch); the lines logged before the failure stay in the log.
C13_NoStepAfterFailure ==
  [][/\ (pc = "running" /\ outcome'[game] = "Failed") =>
          /\ IsPrefix(log, log')
          /\ LastTag(log') = "error"
          /\ CountTag(log', "snapshot") = CountTag(log, "snapshot")
          /\ UNCHANGED gameState
          /\ action_num' = action_num
          /\ pc' = "load"
     /\ (pc = "running" /\ outcome'[game] = "Crashed") =>
          /\ IsPrefix(log, log')
          /\ action_num' = action_num
          /\ pc' = "crashed"
     /\ (pc = "load" /\ game > 0 /\ outcome[game - 1] = "Failed") =>
          \/ pc' = "exited" /\ UNCHANGED <<gameState, log, action_vec, action_num>>
          \/ /\ outcome[game] = "NotStarted" /\ outcome'[game] = "Running"
             /\ action_vec' = NoVector /\ action_num' = 0
             /\ log' = <<Line("header", game + 1)>>
     /\ pc # "crashed"]_vars

\* an episode failed at its second step, after the first step was logged
C13_Witness ==
  /\ pc = "load" /\ game > 0
  /\ outcome[game - 1] = "Failed"
  /\ action_num = 1
  /\ CountTag(log, "snapshot") = 1
  /\ LastTag(log) = "error"
  /\ Len(discard_pile) + cards_played = 1

\* the hand without the card at 0-based position k
RemoveAt(hand, k) == SubSeq(hand, 1, k) \o SubSeq(hand, k + 2, Len(hand))

\* C14: for a step with exactly one entry v different from 30 the actor is
\* the player at that position; v in 0..4 is a discard of hand index v, v in
\* 5..9 a play of hand index v - 5, v in 10..29 a hint, and exactly that
\* operation is applied to that player.
C14_Decoding ==
  [][(SingleActorStep /\ TheCode(action_vec') \in 0 .. 29) =>
       LET a    == TheActor(action_vec')
           v    == TheCode(action_vec')
           hand == hands[a]
       IN  /\ log'[Len(log) + 1] = Line("step", action_num + 1)
           /\ (v \in 0 .. 4 /\ v < Len(hand)) =>
                /\ log'[Len(log) + 2] = Line("discarded", hand[v + 1])
                /\ discard_pile' = Append(discard_pile, hand[v + 1])
                /\ IsPrefix(RemoveAt(hand, v), hands'[a])
                /\ UNCHANGED <<played_pile, cards_played>>
           /\ (v \in 5 .. 9 /\ v - 5 < Len(hand)) =>
                /\ log'[Len(log) + 2] = Line("played", hand[v - 5 + 1])
                /\ cards_played' = cards_played + 1
                /\ IsPrefix(RemoveAt(hand, v - 5), hands'[a])
                /\ UNCHANGED discard_pile
           /\ (v \in 10 .. 29) =>
                /\ log'[Len(log) + 2] = Line("hint", 0)
                /\ UNCHANGED gameState]_vars

\* player 1 played with code 8: the card at index 3 of that hand
C14_Witness ==
  /\ pc = "running"
  /\ action_num = 1
  /\ Differing(action_vec) = {1}
  /\ action_vec[1] = 8
  /\ Len(game_deck) >= 11
  /\ log[3] = Line("played", card_str(game_deck[HandSize + 3 + 1]))
  /\ cards_played = 1

\* C15: a play of a card of color c and rank r removes the card from the
\* acting hand and sets the stack of c to r if r is above its height, else
\* leaves it; the stacks of the other colors are unchanged.
C15_PlayEffect ==
  [][(/\ SingleActorStep
      /\ TheCode(action_vec') \in 5 .. 9
      /\ TheCode(action_vec') - 5 < Len(hands[TheActor(action_vec')])) =>
       LET a    == TheActor(action_vec')
           k    == TheCode(action_vec') - 5
           card == hands[a][k + 1]
           c    == card[1]
           r    == card[2]
       IN  /\ IsPrefix(RemoveAt(hands[a], k), hands'[a])
           /\ Len(hands'[a]) <= Len(hands[a])
           /\ played_pile'[c] = (IF r > played_pile[c] THEN r ELSE played_pile[c])
           /\ \A d \in ColorSet \ {c} : played_pile'[d] = played_pile[d]
           /\ discard_pile' = discard_pile]_vars

\* a play raised an empty stack to 3 at once and a second play of the same
\* color fizzled
C15_Witness ==
  /\ pc = "running"
  /\ cards_played = 2
  /\ LastTag(log) = "snapshot"
  /\ \E i, j \in DOMAIN log :
       /\ i < j
       /\ log[i][1] = "played" /\ log[j][1] = "played"
       /\ log[i][2][2] = 3
       /\ log[j][2][1] = log[i][2][1]
       /\ log[j][2][2] < 3
       /\ played_pile[log[i][2][1]] = 3
       /\ \A d \in ColorSet \ {log[i][2][1]} : played_pile[d] = 0

\* the rendering of the deck card at 0-based position p
DeckCard(p) == <<ColorNames[game_deck[p + 1][1] + 1], game_deck[p + 1][2] + 1>>
\* the state right after initialization
JustInitialized == pc = "running" /\ action_num = 0 /\ Len(log) = 1

\* C16: after initialization player i holds exactly the deck cards at
\* positions 5i .. 5i+4 in deck order, the draw cursor is 5 x num_players,
\* the discard pile is empty and every played stack is 0.
C16_InitialDeal ==
  JustInitialized =>
    /\ \A i \in Players :
         /\ Len(hands[i]) = 5
         /\ \A k \in 1 .. 5 : hands[i][k] = DeckCard(5 * i + k - 1)
    /\ deck_draw_ptr = 5 * num_players
    /\ discard_pile = <<>>
    /\ \A c \in ColorSet : played_pile[c] = 0

\* C17: the draw cursor starts at 5 x num_players, never decreases, grows by
\* one on each draw and by nothing else, and never exceeds the deck length;
\* the card drawn at cursor p is the deck card at position p, appended at
\* the end of the acting hand, the order of the other cards preserved.
C17_DrawCursor ==
  /\ [](JustInitialized => deck_draw_ptr = 5 * num_players)
  /\ [](Replaying => deck_draw_ptr <= Len(game_deck))
  /\ [][pc = "running" =>
         /\ deck_draw_ptr' \in {deck_draw_ptr, deck_draw_ptr + 1}
         /\ (deck_draw_ptr' = deck_draw_ptr + 1) <=>
              (Len(log') > Len(log) + 2 /\ log'[Len(log) + 3][1] = "drew")
         /\ (deck_draw_ptr' = deck_draw_ptr + 1) =>
              LET a == TheActor(action_vec')
                  k == HandIndex(TheCode(action_vec'))
              IN  /\ CardStep
                  /\ hands'[a] = Append(RemoveAt(hands[a], k), DeckCard(deck_draw_ptr))
                  /\ log'[Len(log) + 3] = Line("drew", DeckCard(deck_draw_ptr))]_vars

\* C18: the discard pile is append-only: after any step its old contents are
\* a prefix of the new; a successful discard appends exactly the card
\* removed from the acting hand; play, hint and skip steps leave it as it is.
C18_DiscardAppendOnly ==
  [][pc = "running" =>
       /\ IsPrefix(discard_pile, discard_pile')
       /\ IF /\ CardStep
             /\ TheCode(action_vec') \in 0 .. 4
             /\ TheCode(action_vec') < Len(hands[TheActor(action_vec')])
            THEN LET a == TheActor(action_vec')
                     k == TheCode(action_vec')
                 IN  /\ discard_pile' = Append(discard_pile, hands[a][k + 1])
                     /\ IsPrefix(RemoveAt(hands[a], k), hands'[a])
            ELSE discard_pile' = discard_pile]_vars

\* a discard was followed by a play: the pile holds the discarded card only
C18_Witness ==
  /\ pc = "running"
  /\ Tags(log) \in {<<"header", "step", "discarded", "drew", "snapshot",
                              "step", "played", "drew", "snapshot">>,
                    <<"header", "step", "discarded", "snapshot",
                              "step", "played", "snapshot">>}
  /\ discard_pile = <<log[3][2]>>

\* C19: in any step only the acting player's hand can change: the hands of
\* all other players are the same before and after every discard, play,
\* hint or skip step, and a discard leaves the played stacks unchanged.
C19_Frame ==
  [][pc = "running" =>
       /\ \A p \in Players :
            (~SingleActorStep \/ p # TheActor(action_vec')) => hands'[p] = hands[p]
       /\ (CardStep /\ TheCode(action_vec') \in 0 .. 4) =>
            played_pile' = played_pile]_vars

\* player 1 discarded and drew while player 0 still holds the dealt hand
C19_Witness ==
  /\ pc = "running"
  /\ Differing(action_vec) = {1}
  /\ action_vec[1] \in 0 .. 4
  /\ Tags(log) = <<"header", "step", "discarded", "drew", "snapshot">>
  /\ hands[0] = [k \in 1 .. 5 |-> DeckCard(k - 1)]
  /\ hands[1][5] = DeckCard(5 * num_players)

\* C20: for every discard or play the engine dispatches, the derived hand
\* index lies in 0..4 and is never negative, so no card is ever removed by
\* an index counted from the end of the hand.
C20_IndexNeverNegative ==
  [][(/\ pc = "running"
      /\ Len(log') >= Len(log) + 2
      /\ log'[Len(log) + 2][1] \in {"discarded", "played"}) =>
       LET a == TheActor(action_vec')
           v == TheCode(action_vec')
           k == IF log'[Len(log) + 2][1] = "discarded" THEN v ELSE v - 5
       IN  /\ SingleActorStep
           /\ 0 <= k /\ k <= 4
           /\ k < Len(hands[a])
           /\ log'[Len(log) + 2][2] = hands[a][k + 1]
           /\ IsPrefix(RemoveAt(hands[a], k), hands'[a])]_vars

\* the play code 5 (derived index 0) removed the first card of the hand
\* and the discard code 4 (derived index 4) the last one
C20_Witness ==
  /\ pc = "running"
  /\ action_num = 2
  /\ Differing(action_vec) = {0}
  /\ action_vec[0] = 4
  /\ CountTag(log, "drew") = 2
  /\ log[3] = Line("played", DeckCard(0))
  /\ log[7] = Line("discarded", DeckCard(5 * num_players))

====
